---- MODULE Spec2Model ----
(***************************************************************************)
(* Model of the live audio session of src/App.tsx: the session life cycle  *)
(* (startLive / stopLive / channel callbacks) and the inbound message      *)
(* handler (transcripts, tool calls, audio fragment scheduling,            *)
(* interruption), the PCM codec of src/services/audioUtils.ts, and the     *)
(* document: loading it on mount, updating a slide, generating a           *)
(* presentation and attaching its images.                                  *)
(*                                                                         *)
(* Every invocation of startLive is an instance i \in Starts with its own  *)
(* locals (stream, inputCtx, outputCtx, scriptProcessor, sessionPromise);  *)
(* a ref holds 0 for null or the instance whose object it points to.       *)
(* Time is counted in ticks of 50 ms.                                      *)
(***************************************************************************)
EXTENDS Integers, Sequences, FiniteSets

\* ---------------------------------------------------------------- bounds
MaxStarts == 2      \* invocations of startLive in one run
MaxMsgs   == 2      \* inbound messages delivered in one run
MaxParts  == 1      \* parts of one message's modelTurn
MaxCalls  == 2      \* function calls of one message's toolCall
MaxDur    == 1      \* longest fragment, in ticks
MaxNow    == 2      \* last value of the output clock, in ticks
MaxFrames == 3      \* microphone frames captured by one invocation
MaxBytes  == 5      \* longest byte sequence handed to pcmToAudioBuffer
MaxChannels == 2    \* largest numChannels handed to pcmToAudioBuffer
MaxSample == 2      \* samples range over [-MaxSample, MaxSample]
SampleDen == 10     \* samples are the multiples of 1/SampleDen in that range
MaxSlides == 2      \* slides of a presentation, generated or saved
MaxGenerations == 2 \* presentations generated in one run

\* ------------------------------------------------------ program constants
MinLead == 1        \* 0.05 s, the lead added when the clock is behind "now"

Starts == 1..MaxStarts

VARIABLES
  connectionStatus,   \* 'idle' | 'connecting' | 'active'
  pc,                 \* position of each startLive invocation
  stream,             \* the MediaStream each invocation acquired
  inputCtx,           \* the input AudioContext each invocation created
  outputCtx,          \* the output AudioContext each invocation created
  scriptProcessor,    \* the ScriptProcessorNode each invocation created
  updateVis,          \* the requestAnimationFrame loop each invocation started
  session,            \* the channel behind each invocation's sessionPromise
  closeRequested,     \* stopLive's then(s => s.close()) waiting on a pending promise
  sessionPromiseRef, inputAudioCtxRef, outputAudioCtxRef, streamRef,
  scriptProcessorRef, analyserRef, animationFrameRef,
  nextStartTimeRef,   \* the playback clock
  audioSourcesRef,    \* the in-flight set: ids of sources
  liveTranscription,
  isGenerating,
  currentTime,        \* outputCtx.currentTime of each invocation
  handlers,           \* one record per delivered message: the onmessage call
  sources,            \* the AudioBufferSourceNodes started and not yet ended or stopped
  lastStarted,        \* the newest fragment started: when, and after what
  toolCalls,          \* ids of the function calls received
  toolResponses,      \* ids passed to sendToolResponse, in order
  generateCalls,      \* handleGenerate bodies that passed their guard
  updateCalls,        \* handleUpdateCurrentSlide invocations
  lastIntMsg,         \* newest message whose interruption has been processed
  resetSince,         \* what reset the clock since the last fragment was started
  cancelled,          \* stopLive has run while this startLive was suspended
  transcriptEvents,   \* the newest message: transcripts it carried, and those forwarded
  onaudioprocess,     \* scriptProcessor.onaudioprocess of each invocation is set
  frames,             \* audioprocess events of each invocation's scriptProcessor
  openedAt,           \* frames an invocation had captured when onopen ran (-1: not yet)
  sent,               \* frames passed to sendRealtimeInput, per invocation, in order
  pcm,                \* the newest createPCMBlob call: sample, int16 element, bytes
  audioBuffer,        \* the newest pcmToAudioBuffer call: its input and its result
  presentation,       \* the document in memory
  activeSlideIndex,   \* index of the slide on show, from 0
  persisted,          \* what localStorage holds under LOCAL_STORAGE_KEY
  loaded,             \* what the mount effect read from localStorage
  generating,         \* handleGenerate invocations awaiting the structure
  generated,          \* presentations generated so far
  imageRequests,      \* generateImage calls that have not settled
  lastAct             \* the operation that produced this state

lifeVars == <<connectionStatus, pc, stream, inputCtx, outputCtx, scriptProcessor,
              updateVis, session, closeRequested, sessionPromiseRef,
              inputAudioCtxRef, outputAudioCtxRef, streamRef, scriptProcessorRef,
              analyserRef, animationFrameRef, cancelled>>
playVars == <<nextStartTimeRef, audioSourcesRef, currentTime, handlers, sources,
              lastStarted, lastIntMsg, resetSince>>
toolVars == <<toolCalls, toolResponses, generateCalls, updateCalls, isGenerating,
              transcriptEvents>>
capVars == <<onaudioprocess, frames, openedAt, sent>>
codecVars == <<pcm, audioBuffer>>
docVars == <<presentation, activeSlideIndex, persisted, loaded, generating, generated,
             imageRequests>>
vars == <<lifeVars, playVars, toolVars, capVars, codecVars, docVars, liveTranscription,
          lastAct>>

\* ------------------------------------------------------------ life cycle

\* Suspension points of startLive (its awaits), and where it can end.
Suspended == {"getUserMedia", "resumeInput", "resumeOutput"}

\* lastStarted before any fragment has been started.
NoFragment == [n |-> 0, ctx |-> 0, start |-> 0, end |-> 0, after |-> "none",
               stale |-> FALSE]

\* transcriptEvents before any message has been delivered.
NoTranscripts == [received |-> {}, forwarded |-> {}]

\* pcm and audioBuffer before the first call.
NoPCM == [sample |-> [kind |-> "none", num |-> 0], int16 |-> 0, bytes |-> <<>>]
NoBuffer == [data |-> <<>>, numChannels |-> 0, threw |-> FALSE, length |-> 0,
             channelData |-> <<>>, of |-> [kind |-> "none", num |-> 0]]

\* ------------------------------------------------------------ the document

\* A slide's imageUrl names the generateImage call that produced it: the
\* presentation and the slide index (from 1) the call was made for.
NoImage == [pres |-> 0, slide |-> 0]
PlainSlide == [edited |-> FALSE, imageUrl |-> NoImage]

\* A value of localStorage.getItem / JSON.parse, by what the mount effect reads of
\* it. kind is "absent" for null or the empty string, "unparseable" for text that
\* JSON.parse rejects, "null" for the text null, "scalar" for a number, string or
\* boolean, "slidesFalsy" for an object whose slides is missing or falsy,
\* "slidesNotArray" for an object whose slides is truthy and no array, and
\* "document" for an object whose slides is an array. id is 0 for the initial
\* document, g for the g-th presentation generated in this run, -1 for one saved
\* by an earlier run.
Value(kind) == [kind |-> kind, id |-> 0, slides |-> <<>>]
Absent == Value("absent")
NotLoaded == Value("notLoaded")

\* useState<Presentation>({ id: '1', ..., slides: [{ id: '1', ... }] })
DefaultPresentation == [kind |-> "document", id |-> 0, slides |-> <<PlainSlide>>]

\* The documents an earlier run can have saved: up to MaxSlides slides, each with
\* or without its image.
SavedDocuments ==
  {[kind |-> "document", id |-> -1,
    slides |-> [k \in 1..n |->
                  [edited |-> FALSE,
                   imageUrl |-> IF k \in img THEN [pres |-> -1, slide |-> k]
                                ELSE NoImage]]] :
     n \in 0..MaxSlides, img \in SUBSET (1..MaxSlides)}

\* What localStorage can hold when the app is mounted.
Stored ==
  {Value(k) : k \in {"absent", "unparseable", "null", "scalar", "slidesFalsy",
                     "slidesNotArray"}} \cup SavedDocuments

\* The mount effect calls setPresentation(parsed): saved is truthy, JSON.parse
\* returns, and parsed.slides neither throws nor is falsy.
Accepted(saved) == saved.kind \in {"slidesNotArray", "document"}

\* The render goes through: presentation.slides.map is a function and SlideRenderer
\* is handed a slide to read layout, title and content of.
Renders(p, idx) == p.kind = "document" /\ idx + 1 <= Len(p.slides)

\* news[activeSlideIndex] = { ...news[activeSlideIndex], ...updates }
UpdatedSlide(p, idx) ==
  [p EXCEPT !.slides = [k \in 1..Len(p.slides) |->
                          IF k = idx + 1 THEN [p.slides[k] EXCEPT !.edited = TRUE]
                          ELSE p.slides[k]]]

\* const n = [...p.slides]; if (n[i]) n[i].imageUrl = url
Attached(p, req) ==
  [p EXCEPT !.slides = [k \in 1..Len(p.slides) |->
                          IF k = req.slide THEN [p.slides[k] EXCEPT !.imageUrl = req]
                          ELSE p.slides[k]]]

\* The document once the app is mounted with nothing saved.
Mounted ==
  /\ presentation = DefaultPresentation
  /\ activeSlideIndex = 0
  /\ persisted = Absent
  /\ loaded = Absent
  /\ generating = 0
  /\ generated = 0
  /\ imageRequests = {}


\* The state of the component after its first render: every useState and useRef
\* holds its initial value.
Constructed ==
  /\ connectionStatus = "idle"
  /\ pc = [i \in Starts |-> "unused"]
  /\ stream = [i \in Starts |-> "none"]
  /\ inputCtx = [i \in Starts |-> "none"]
  /\ outputCtx = [i \in Starts |-> "none"]
  /\ scriptProcessor = [i \in Starts |-> "none"]
  /\ updateVis = [i \in Starts |-> "none"]
  /\ session = [i \in Starts |-> "none"]
  /\ closeRequested = [i \in Starts |-> FALSE]
  /\ sessionPromiseRef = 0
  /\ inputAudioCtxRef = 0
  /\ outputAudioCtxRef = 0
  /\ streamRef = 0
  /\ scriptProcessorRef = 0
  /\ analyserRef = 0
  /\ animationFrameRef = 0
  /\ nextStartTimeRef = 0
  /\ audioSourcesRef = {}
  /\ liveTranscription = ""
  /\ isGenerating = FALSE
  /\ currentTime = [i \in Starts |-> 0]
  /\ handlers = <<>>
  /\ sources = {}
  /\ lastStarted = NoFragment
  /\ toolCalls = {}
  /\ toolResponses = <<>>
  /\ generateCalls = 0
  /\ updateCalls = 0
  /\ lastIntMsg = 0
  /\ resetSince = "none"
  /\ cancelled = [i \in Starts |-> FALSE]
  /\ transcriptEvents = NoTranscripts
  /\ onaudioprocess = [i \in Starts |-> FALSE]
  /\ frames = [i \in Starts |-> 0]
  /\ openedAt = [i \in Starts |-> -1]
  /\ sent = [i \in Starts |-> <<>>]
  /\ pcm = NoPCM
  /\ audioBuffer = NoBuffer
  /\ lastAct = "init"

\* The mount effect has run and found nothing saved.
Init == Constructed /\ Mounted

\* f with f[r] set to v when r is an instance and f[r] = from; f when r is null.
Release(f, r, from, v) ==
  IF r # 0 /\ f[r] = from THEN [f EXCEPT ![r] = v] ELSE f

\* Invocation i is suspended in an await of startLive or waits for its channel
\* to open.
Pending(i, ses) ==
  pc[i] \in Suspended \/ (pc[i] = "returned" /\ ses[i] = "pending")

\* stopLive(), run on the channel states ses (a channel callback has already
\* changed its own channel's state when it calls stopLive).
StopLiveOn(ses) ==
  /\ session' = Release(ses, sessionPromiseRef, "open", "closing")
  /\ closeRequested' =
       IF sessionPromiseRef # 0 /\ ses[sessionPromiseRef] = "pending"
       THEN [closeRequested EXCEPT ![sessionPromiseRef] = TRUE]
       ELSE closeRequested
  /\ sessionPromiseRef' = 0
  /\ updateVis' = Release(updateVis, animationFrameRef, "running", "cancelled")
  /\ scriptProcessor' =
       Release(scriptProcessor, scriptProcessorRef, "connected", "disconnected")
  /\ stream' = Release(stream, streamRef, "live", "stopped")
  /\ inputCtx' = Release(inputCtx, inputAudioCtxRef, "open", "closed")
  /\ outputCtx' = Release(outputCtx, outputAudioCtxRef, "open", "closed")
  /\ connectionStatus' = "idle"
  /\ liveTranscription' = ""
  /\ nextStartTimeRef' = 0
  /\ resetSince' = "stop"
  /\ cancelled' = [i \in Starts |-> cancelled[i] \/ Pending(i, ses)]
  /\ UNCHANGED <<pc, inputAudioCtxRef, outputAudioCtxRef, streamRef,
                 scriptProcessorRef, analyserRef, animationFrameRef,
                 audioSourcesRef, currentTime, handlers, sources, lastStarted,
                 lastIntMsg, toolVars, capVars, codecVars, docVars>>

stopLive == StopLiveOn(session)

\* startLive() up to its first await: invocation i begins.
startLive(i) ==
  /\ pc[i] = "unused"
  /\ \A j \in Starts : j < i => pc[j] # "unused"
  /\ pc' = [pc EXCEPT ![i] = "getUserMedia"]
  /\ connectionStatus' = "connecting"
  /\ UNCHANGED <<stream, inputCtx, outputCtx, scriptProcessor, updateVis, session,
                 closeRequested, sessionPromiseRef, inputAudioCtxRef,
                 outputAudioCtxRef, streamRef, scriptProcessorRef, analyserRef,
                 animationFrameRef, cancelled, playVars, toolVars, capVars, codecVars, docVars,
                 liveTranscription>>

\* The button while it shows the microphone: startLive
startButton ==
  /\ connectionStatus = "idle"
  /\ \E i \in Starts : startLive(i)
  /\ lastAct' = "startLive"

\* The button while it shows the stop icon: stopLive
stopButton ==
  /\ connectionStatus # "idle"
  /\ stopLive
  /\ lastAct' = "stopLive"

\* A button that starts whatever the status is.
MicButtonUnguarded ==
  \/ (\E i \in Starts : startLive(i)) /\ lastAct' = "startLive"
  \/ stopButton

\* The microphone button: onClick={connectionStatus === 'idle' ? startLive : stopLive}
MicButton ==
  \/ startButton
  \/ stopButton

\* The catch block of startLive: setConnectionStatus('idle'); alert(...)
Catch(i) ==
  /\ pc' = [pc EXCEPT ![i] = "failed"]
  /\ connectionStatus' = "idle"

\* getUserMedia resolves: streamRef.current = stream, then both contexts are
\* constructed (created of them succeed; a constructor that throws is caught)
\* and startLive suspends in inputCtx.resume().
getUserMediaResolved(i, created) ==
  /\ pc[i] = "getUserMedia"
  /\ stream' = [stream EXCEPT ![i] = "live"]
  /\ streamRef' = i
  /\ inputCtx' = [inputCtx EXCEPT ![i] = IF created >= 1 THEN "open" ELSE "none"]
  /\ outputCtx' = [outputCtx EXCEPT ![i] = IF created >= 2 THEN "open" ELSE "none"]
  /\ IF created = 2
     THEN /\ pc' = [pc EXCEPT ![i] = "resumeInput"]
          /\ UNCHANGED connectionStatus
     ELSE Catch(i)
  /\ UNCHANGED <<scriptProcessor, updateVis, session, closeRequested,
                 sessionPromiseRef, inputAudioCtxRef, outputAudioCtxRef,
                 scriptProcessorRef, analyserRef, animationFrameRef, cancelled, playVars, toolVars, capVars, codecVars, docVars, liveTranscription>>

\* await inputCtx.resume() resolves: startLive suspends in outputCtx.resume().
resumeInputResolved(i) ==
  /\ pc[i] = "resumeInput"
  /\ pc' = [pc EXCEPT ![i] = "resumeOutput"]
  /\ UNCHANGED <<connectionStatus, stream, inputCtx, outputCtx, scriptProcessor,
                 updateVis, session, closeRequested, sessionPromiseRef,
                 inputAudioCtxRef, outputAudioCtxRef, streamRef,
                 scriptProcessorRef, analyserRef, animationFrameRef, cancelled, playVars, toolVars, capVars, codecVars, docVars, liveTranscription>>

\* await outputCtx.resume() resolves: the refs are assigned, the signal chain and
\* the visualizer loop are started, ai.live.connect is called and startLive returns.
resumeOutputResolved(i) ==
  /\ pc[i] = "resumeOutput"
  /\ pc' = [pc EXCEPT ![i] = "returned"]
  /\ inputAudioCtxRef' = i
  /\ outputAudioCtxRef' = i
  /\ analyserRef' = i
  /\ scriptProcessor' = [scriptProcessor EXCEPT ![i] = "connected"]
  /\ scriptProcessorRef' = i
  /\ updateVis' = [updateVis EXCEPT ![i] = "running"]
  /\ animationFrameRef' = i
  /\ session' = [session EXCEPT ![i] = "pending"]
  /\ sessionPromiseRef' = i
  /\ UNCHANGED <<connectionStatus, stream, inputCtx, outputCtx, closeRequested,
                 streamRef, cancelled, playVars, toolVars, capVars, codecVars, docVars,
                 liveTranscription>>

\* An awaited promise of startLive rejects: the catch block runs.
awaitRejected(i) ==
  /\ pc[i] \in Suspended
  /\ Catch(i)
  /\ UNCHANGED <<stream, inputCtx, outputCtx, scriptProcessor, updateVis, session,
                 closeRequested, sessionPromiseRef, inputAudioCtxRef,
                 outputAudioCtxRef, streamRef, scriptProcessorRef, analyserRef,
                 animationFrameRef, cancelled, playVars, toolVars, capVars, codecVars, docVars,
                 liveTranscription>>

\* One frame of the visualizer loop:
\* animationFrameRef.current = requestAnimationFrame(updateVis)
updateVisFrame(i) ==
  /\ updateVis[i] = "running"
  /\ animationFrameRef' = i
  /\ UNCHANGED <<connectionStatus, pc, stream, inputCtx, outputCtx, scriptProcessor,
                 updateVis, session, closeRequested, sessionPromiseRef,
                 inputAudioCtxRef, outputAudioCtxRef, streamRef,
                 scriptProcessorRef, analyserRef, cancelled, playVars,
                 toolVars, capVars, codecVars, docVars, liveTranscription>>

\* callbacks.onopen: setConnectionStatus('active'); sessionPromise then resolves,
\* which runs a close that stopLive queued on it while it was pending.
onopen(i) ==
  /\ session[i] = "pending"
  /\ connectionStatus' = "active"
  /\ session' = [session EXCEPT ![i] = IF closeRequested[i] THEN "closing" ELSE "open"]
  /\ onaudioprocess' = [onaudioprocess EXCEPT ![i] = TRUE]
  /\ openedAt' = [openedAt EXCEPT ![i] = frames[i]]
  /\ UNCHANGED <<pc, stream, inputCtx, outputCtx, scriptProcessor, updateVis,
                 closeRequested, sessionPromiseRef, inputAudioCtxRef,
                 outputAudioCtxRef, streamRef, scriptProcessorRef, analyserRef,
                 animationFrameRef, cancelled, playVars, toolVars, frames, sent,
                 codecVars, docVars, liveTranscription>>

\* sessionPromise rejects: startLive does not await it and attaches no handler
\* (stopLive's .catch(() => {}) swallows it), so no code of the program runs.
connectRejected(i) ==
  /\ session[i] = "pending"
  /\ session' = [session EXCEPT ![i] = "rejected"]
  /\ UNCHANGED <<connectionStatus, pc, stream, inputCtx, outputCtx, scriptProcessor,
                 updateVis, closeRequested, sessionPromiseRef, inputAudioCtxRef,
                 outputAudioCtxRef, streamRef, scriptProcessorRef, analyserRef,
                 animationFrameRef, cancelled, playVars, toolVars, capVars, codecVars, docVars,
                 liveTranscription>>

\* callbacks.onerror: (e) => { stopLive(); }
onerror(i) ==
  /\ session[i] \in {"pending", "open", "closing"}
  /\ StopLiveOn([session EXCEPT ![i] = "errored"])

\* callbacks.onclose: () => stopLive()
onclose(i) ==
  /\ session[i] \in {"pending", "open", "closing", "errored"}
  /\ StopLiveOn([session EXCEPT ![i] = "closed"])

\* ------------------------------------------------------ inbound messages

\* All sequences over S of length at most n.
SeqUpTo(S, n) == UNION {[1..k -> S] : k \in 0..n}

\* A function call of message.toolCall.functionCalls. args is "none" when fc.args
\* is undefined, "empty" when it carries no topic, "topic" when it carries one.
Calls ==
  [name : {"create_presentation"}, args : {"none", "empty", "topic"}]
    \cup [name : {"update_slide", "unknown_tool"}, args : {"empty"}]

\* What a handler reads of its message before the parts loop.
Messages ==
  [transcript : {"none", "input", "output", "both"},
   calls : SeqUpTo(Calls, MaxCalls)]

\* The messages that carry neither a transcript nor a tool call.
AudioOnly == {msg \in Messages : msg.transcript = "none" /\ msg.calls = <<>>}

\* What the loop over message.serverContent.modelTurn.parts meets next, in a
\* message of which it has looked at seen parts: the end of the parts (and then the
\* interrupted flag), a part whose data atob rejects, or, at position turn.seen, a
\* part whose data decodes to a fragment of turn.dur ticks; the parts in between
\* carry no inline data and are skipped. A handler depends on its message only
\* through what it has read, so the rest of a message is drawn when it is read.
Turns(seen) ==
  [kind : {"end"}, seen : {0}, dur : {0}, interrupted : BOOLEAN]
    \cup [kind : {"malformed"}, seen : {0} \ {k \in {0} : seen >= MaxParts},
          dur : {0}, interrupted : {FALSE}]
    \cup [kind : {"audio"}, seen : (seen + 1)..MaxParts, dur : 0..MaxDur,
          interrupted : {FALSE}]

Max(a, b) == IF a >= b THEN a ELSE b

\* if (inputTranscription) setLiveTranscription("Du: " + ...)
\* else if (outputTranscription) setLiveTranscription("KI: " + ...)
Transcribed(old, transcript) ==
  IF transcript \in {"input", "both"} THEN "Du: input"
  ELSE IF transcript = "output" THEN "KI: output"
  ELSE old

\* The transcript events a message carries: inputTranscription, outputTranscription.
Carried(transcript) ==
  CASE transcript = "none" -> {}
    [] transcript = "input" -> {"input"}
    [] transcript = "output" -> {"output"}
    [] transcript = "both" -> {"input", "output"}

\* The transcript events of a message that reach setLiveTranscription: the input
\* one when there is one, else the output one.
Forwarded(transcript) ==
  IF "input" \in Carried(transcript) THEN {"input"}
  ELSE IF "output" \in Carried(transcript) THEN {"output"}
  ELSE {}

\* (fc.args as any).topic throws a TypeError when fc.args is undefined.
Throws(call) == call.name = "create_presentation" /\ call.args = "none"

\* The number of calls the for loop over functionCalls completes: all of them, or
\* those before the first one whose dispatch throws.
RECURSIVE Completed(_)
Completed(calls) ==
  IF calls = <<>> \/ Throws(Head(calls)) THEN 0
  ELSE 1 + Completed(Tail(calls))

\* handleGenerate passes its guard: if (!topic || isGenerating) return
Generates(call) ==
  call.name = "create_presentation" /\ call.args = "topic" /\ ~isGenerating

StartTimeIgnoringClock(next, now) == now + MinLead

\* if (nextStartTimeRef.current < now) nextStartTimeRef.current = now + 0.05;
\* source.start(nextStartTimeRef.current)
StartTime(next, now) == IF next < now THEN now + MinLead ELSE next

\* The playback state a handler step works on.
Playback == [clock |-> nextStartTimeRef, inflight |-> audioSourcesRef,
             srcs |-> sources, reset |-> resetSince, intMsg |-> lastIntMsg,
             last |-> lastStarted]

\* Lines 236-244: the fragment of message m, dur ticks long, is started on output
\* context ctx (whose currentTime is now) and added to the in-flight set.
Schedule(pb, m, dur, ctx, now) ==
  LET start == StartTime(pb.clock, now)
      id == pb.last.n + 1
  IN [pb EXCEPT
        !.clock = start + dur,
        !.srcs = pb.srcs \cup {[id |-> id, ctx |-> ctx, end |-> start + dur]},
        !.inflight = pb.inflight \cup {id},
        !.reset = "none",
        !.last = [n |-> id, ctx |-> ctx, start |-> start, end |-> start + dur,
                  after |-> pb.reset, stale |-> pb.intMsg > m]]

InterruptKeepingSources(pb, m) ==
  [pb EXCEPT !.inflight = {}, !.clock = 0, !.reset = "interrupt",
             !.intMsg = Max(pb.intMsg, m)]

InterruptKeepingClock(pb, m) ==
  [pb EXCEPT !.srcs = {s \in pb.srcs : s.id \notin pb.inflight},
             !.inflight = {}, !.reset = "interrupt",
             !.intMsg = Max(pb.intMsg, m)]

\* Lines 249-253: every source of the in-flight set is stopped, the set is
\* cleared and the clock is reset.
Interrupt(pb, m) ==
  [pb EXCEPT !.srcs = {s \in pb.srcs : s.id \notin pb.inflight},
             !.inflight = {}, !.clock = 0, !.reset = "interrupt",
             !.intMsg = Max(pb.intMsg, m)]

\* The handler of message m, run from playback state pb until its parts loop has
\* met turn: it is suspended in the await on pcmToAudioBuffer, has thrown, or has
\* looked at the interrupted flag and is done.
RunTo(pb, m, ctx, turn) ==
  LET interrupts == turn.kind = "end" /\ turn.interrupted
      out == IF interrupts THEN Interrupt(pb, m) ELSE pb
  IN /\ handlers' =
          [k \in 1..Max(m, Len(handlers)) |->
             IF k # m THEN handlers[k]
             ELSE [ctx |-> ctx, dur |-> turn.dur, seen |-> turn.seen,
                   pc |-> CASE turn.kind = "end" -> "done"
                            [] turn.kind = "malformed" -> "threw"
                            [] turn.kind = "audio" -> "await"]]
     /\ nextStartTimeRef' = out.clock
     /\ audioSourcesRef' = out.inflight
     /\ sources' = out.srcs
     /\ resetSince' = out.reset
     /\ lastIntMsg' = out.intMsg
     /\ lastStarted' = out.last
     /\ lastAct' = IF interrupts THEN "interrupted" ELSE "other"

\* callbacks.onmessage is called with msg on the channel of invocation i and runs
\* to its first await.
onmessage(i, msg, turn) ==
  LET m == Len(handlers) + 1
      done == Completed(msg.calls)
  IN /\ m <= MaxMsgs
     /\ session[i] \in {"open", "closing"}
     /\ liveTranscription' = Transcribed(liveTranscription, msg.transcript)
     /\ transcriptEvents' = [received |-> Carried(msg.transcript),
                             forwarded |-> Forwarded(msg.transcript)]
     /\ toolCalls' = toolCalls \cup {<<m, c>> : c \in 1..Len(msg.calls)}
     /\ toolResponses' = toolResponses \o [c \in 1..done |-> <<m, c>>]
     /\ generateCalls' =
          generateCalls + Cardinality({c \in 1..done : Generates(msg.calls[c])})
     /\ isGenerating' = (isGenerating \/ \E c \in 1..done : Generates(msg.calls[c]))
     /\ updateCalls' =
          updateCalls + Cardinality({c \in 1..done : msg.calls[c].name = "update_slide"})
     /\ IF done < Len(msg.calls)
        THEN /\ turn = [kind |-> "end", seen |-> 0, dur |-> 0, interrupted |-> FALSE]
             /\ handlers' = Append(handlers, [ctx |-> i, dur |-> 0, seen |-> 0,
                                               pc |-> "threw"])
             /\ lastAct' = "other"
             /\ UNCHANGED <<nextStartTimeRef, audioSourcesRef, sources, resetSince,
                            lastIntMsg, lastStarted>>
        ELSE RunTo(Playback, m, i, turn)
     /\ generating' = generating + Cardinality({c \in 1..done : Generates(msg.calls[c])})
     /\ presentation' =
          IF \E c \in 1..done : msg.calls[c].name = "update_slide"
          THEN UpdatedSlide(presentation, activeSlideIndex) ELSE presentation
     /\ persisted' =
          IF \E c \in 1..done : msg.calls[c].name = "update_slide"
          THEN UpdatedSlide(presentation, activeSlideIndex) ELSE persisted
     /\ UNCHANGED <<lifeVars, capVars, codecVars, currentTime, activeSlideIndex,
                    loaded, generated, imageRequests>>

\* The await of handler m on pcmToAudioBuffer resumes: the fragment is scheduled
\* and the handler runs on.
resume(m, turn) ==
  LET h == handlers[m]
  IN /\ h.pc = "await"
     /\ RunTo(Schedule(Playback, m, h.dur, h.ctx, currentTime[h.ctx]), m, h.ctx, turn)
     /\ UNCHANGED <<lifeVars, capVars, codecVars, docVars, toolVars, currentTime, liveTranscription>>

\* source.onended = () => audioSourcesRef.current.delete(source), once the
\* source has played to its end.
onended(src) ==
  /\ outputCtx[src.ctx] = "open"
  /\ currentTime[src.ctx] >= src.end
  /\ sources' = sources \ {src}
  /\ audioSourcesRef' = audioSourcesRef \ {src.id}
  /\ lastAct' = "other"
  /\ UNCHANGED <<lifeVars, capVars, codecVars, docVars, toolVars, nextStartTimeRef, currentTime, handlers,
                 lastIntMsg, resetSince, lastStarted, liveTranscription>>

\* The clock of an open output context advances.
tick(i) ==
  /\ outputCtx[i] = "open"
  /\ currentTime[i] < MaxNow
  /\ currentTime' = [currentTime EXCEPT ![i] = @ + 1]
  /\ lastAct' = "other"
  /\ UNCHANGED <<lifeVars, capVars, codecVars, docVars, toolVars, nextStartTimeRef, audioSourcesRef, handlers,
                 sources, lastIntMsg, resetSince, lastStarted, liveTranscription>>

\* The state once one startLive has run through and its channel has opened.
InitLive ==
  /\ connectionStatus = "active"
  /\ pc = [i \in Starts |-> IF i = 1 THEN "returned" ELSE "unused"]
  /\ stream = [i \in Starts |-> IF i = 1 THEN "live" ELSE "none"]
  /\ inputCtx = [i \in Starts |-> IF i = 1 THEN "open" ELSE "none"]
  /\ outputCtx = [i \in Starts |-> IF i = 1 THEN "open" ELSE "none"]
  /\ scriptProcessor = [i \in Starts |-> IF i = 1 THEN "connected" ELSE "none"]
  /\ updateVis = [i \in Starts |-> IF i = 1 THEN "running" ELSE "none"]
  /\ session = [i \in Starts |-> IF i = 1 THEN "open" ELSE "none"]
  /\ closeRequested = [i \in Starts |-> FALSE]
  /\ sessionPromiseRef = 1
  /\ inputAudioCtxRef = 1
  /\ outputAudioCtxRef = 1
  /\ streamRef = 1
  /\ scriptProcessorRef = 1
  /\ analyserRef = 1
  /\ animationFrameRef = 1
  /\ nextStartTimeRef = 0
  /\ audioSourcesRef = {}
  /\ liveTranscription = ""
  /\ isGenerating = FALSE
  /\ currentTime = [i \in Starts |-> 0]
  /\ handlers = <<>>
  /\ sources = {}
  /\ lastStarted = NoFragment
  /\ toolCalls = {}
  /\ toolResponses = <<>>
  /\ generateCalls = 0
  /\ updateCalls = 0
  /\ lastIntMsg = 0
  /\ resetSince = "none"
  /\ cancelled = [i \in Starts |-> FALSE]
  /\ transcriptEvents = NoTranscripts
  /\ onaudioprocess = [i \in Starts |-> i = 1]
  /\ frames = [i \in Starts |-> 0]
  /\ openedAt = [i \in Starts |-> IF i = 1 THEN 0 ELSE -1]
  /\ sent = [i \in Starts |-> <<>>]
  /\ pcm = NoPCM
  /\ audioBuffer = NoBuffer
  /\ Mounted
  /\ lastAct = "other"

\* One session from its opening on: messages, playback and teardown.
NextLive ==
  \/ \E msg \in AudioOnly, turn \in Turns(0) : onmessage(1, msg, turn)
  \/ \E m \in DOMAIN handlers : \E turn \in Turns(handlers[m].seen) : resume(m, turn)
  \/ \E src \in sources : onended(src)
  \/ tick(1)
  \/ stopButton

SpecLive == InitLive /\ [][NextLive]_vars

\* The same session with messages of every kind, its clock standing still.
NextTools ==
  \/ \E msg \in Messages, turn \in Turns(0) : onmessage(1, msg, turn)
  \/ \E m \in DOMAIN handlers : \E turn \in Turns(handlers[m].seen) : resume(m, turn)
  \/ stopButton

SpecTools == InitLive /\ [][NextTools]_vars

\* ------------------------------------------------------ microphone frames

TransmitUninstalled(out, installed, frame) == Append(out, frame)

\* What an audioprocess event adds to the chunks passed to sendRealtimeInput:
\* the frame when onopen has set scriptProcessor.onaudioprocess, else nothing.
\* sessionPromise.then(...) callbacks run in the order they were registered.
Transmit(out, installed, frame) ==
  IF installed THEN Append(out, frame) ELSE out

\* The scriptProcessor of invocation i fires an audioprocess event for the next
\* frame of its input.
audioprocess(i) ==
  /\ scriptProcessor[i] = "connected"
  /\ inputCtx[i] = "open"
  /\ frames[i] < MaxFrames
  /\ frames' = [frames EXCEPT ![i] = @ + 1]
  /\ sent' = [sent EXCEPT ![i] = Transmit(@, onaudioprocess[i], frames[i] + 1)]
  /\ lastAct' = "other"
  /\ UNCHANGED <<lifeVars, playVars, toolVars, codecVars, docVars, onaudioprocess,
                 openedAt, liveTranscription>>

\* The state once one startLive has returned, its channel still to open.
InitCapture ==
  /\ connectionStatus = "connecting"
  /\ pc = [i \in Starts |-> IF i = 1 THEN "returned" ELSE "unused"]
  /\ stream = [i \in Starts |-> IF i = 1 THEN "live" ELSE "none"]
  /\ inputCtx = [i \in Starts |-> IF i = 1 THEN "open" ELSE "none"]
  /\ outputCtx = [i \in Starts |-> IF i = 1 THEN "open" ELSE "none"]
  /\ scriptProcessor = [i \in Starts |-> IF i = 1 THEN "connected" ELSE "none"]
  /\ updateVis = [i \in Starts |-> IF i = 1 THEN "running" ELSE "none"]
  /\ session = [i \in Starts |-> IF i = 1 THEN "pending" ELSE "none"]
  /\ closeRequested = [i \in Starts |-> FALSE]
  /\ sessionPromiseRef = 1
  /\ inputAudioCtxRef = 1
  /\ outputAudioCtxRef = 1
  /\ streamRef = 1
  /\ scriptProcessorRef = 1
  /\ analyserRef = 1
  /\ animationFrameRef = 1
  /\ nextStartTimeRef = 0
  /\ audioSourcesRef = {}
  /\ liveTranscription = ""
  /\ isGenerating = FALSE
  /\ currentTime = [i \in Starts |-> 0]
  /\ handlers = <<>>
  /\ sources = {}
  /\ lastStarted = NoFragment
  /\ toolCalls = {}
  /\ toolResponses = <<>>
  /\ generateCalls = 0
  /\ updateCalls = 0
  /\ lastIntMsg = 0
  /\ resetSince = "none"
  /\ cancelled = [i \in Starts |-> FALSE]
  /\ transcriptEvents = NoTranscripts
  /\ onaudioprocess = [i \in Starts |-> FALSE]
  /\ frames = [i \in Starts |-> 0]
  /\ openedAt = [i \in Starts |-> -1]
  /\ sent = [i \in Starts |-> <<>>]
  /\ pcm = NoPCM
  /\ audioBuffer = NoBuffer
  /\ Mounted
  /\ lastAct = "other"

\* One invocation from its return on: frames, the channel opening, teardown and
\* the next invocation.
NextCapture ==
  \/ \E i \in Starts : audioprocess(i)
  \/ \E i \in Starts : onopen(i) /\ lastAct' = "other"
  \/ \E i \in Starts : onclose(i) /\ lastAct' = "onclose"
  \/ MicButton
  \/ \E i \in Starts : getUserMediaResolved(i, 2) /\ lastAct' = "other"
  \/ \E i \in Starts : resumeInputResolved(i) /\ lastAct' = "other"
  \/ \E i \in Starts : resumeOutputResolved(i) /\ lastAct' = "other"

SpecCapture == InitCapture /\ [][NextCapture]_vars

\* ------------------------------------------------------------ PCM codec

NegScale == 32768       \* 0x8000, the factor of a negative sample
PosScale == 32767       \* 0x7FFF, the factor of any other sample
DecodeScale == 32768    \* a decoded sample is its 16-bit value over this

\* Sample values: num / SampleDen, or one of the non-finite floats.
Samples ==
  [kind : {"finite"}, num : (-MaxSample * SampleDen)..(MaxSample * SampleDen)]
    \cup [kind : {"NaN", "Infinity", "-Infinity"}, num : {0}]

ClampNone(s) == s

\* Math.max(-1, Math.min(1, data[i])); NaN stays NaN.
Clamp(s) ==
  CASE s.kind = "NaN" -> s
    [] s.kind = "Infinity" -> [kind |-> "finite", num |-> SampleDen]
    [] s.kind = "-Infinity" -> [kind |-> "finite", num |-> -SampleDen]
    [] OTHER ->
         [kind |-> "finite",
          num |-> IF s.num > SampleDen THEN SampleDen
                  ELSE IF s.num < -SampleDen THEN -SampleDen ELSE s.num]

\* n / d rounded toward zero (d > 0).
Trunc(n, d) == IF n >= 0 THEN n \div d ELSE -((-n) \div d)

\* A number stored into an Int16Array: NaN and the infinities become 0, any other
\* value n / d is truncated and wrapped into 16 bits.
ToInt16(kind, n, d) ==
  IF kind # "finite" THEN 0
  ELSE ((Trunc(n, d) + 32768) % 65536) - 32768

\* int16[i] = s < 0 ? s * 0x8000 : s * 0x7FFF, s the clamped sample.
EncodeSample(sample) ==
  LET s == Clamp(sample)
  IN ToInt16(s.kind,
             IF s.kind = "finite" /\ s.num < 0 THEN s.num * NegScale
             ELSE s.num * PosScale,
             SampleDen)

\* new Uint8Array(int16.buffer): the two bytes of one element, low byte first.
Int16Bytes(v) ==
  LET u == v % 65536
  IN <<u % 256, u \div 256>>

GetInt16BigEndian(data, offset) ==
  LET u == 256 * data[offset + 1] + data[offset + 2]
  IN IF u >= 32768 THEN u - 65536 ELSE u

\* dataView.getInt16(offset, true)
GetInt16(data, offset) ==
  LET u == data[offset + 1] + 256 * data[offset + 2]
  IN IF u >= 32768 THEN u - 65536 ELSE u

\* pcmToAudioBuffer(data, ctx, sampleRate, numChannels): whether it threw, the
\* length of the buffer and its channel data, each value over DecodeScale.
\* createBuffer takes its length as an unsigned long (the quotient truncated) and
\* throws NotSupportedError on a length of 0; a channelData index past the length
\* is not written.
PcmToAudioBuffer(data, numChannels) ==
  LET byteLength == Len(data)
      length == byteLength \div (2 * numChannels)
  IN IF byteLength = 0
     THEN [threw |-> FALSE, length |-> 1,
           channelData |-> [ch \in 1..numChannels |-> <<0>>]]
     ELSE IF length = 0
     THEN [threw |-> TRUE, length |-> 0, channelData |-> <<>>]
     ELSE [threw |-> FALSE, length |-> length,
           channelData |->
             [ch \in 1..numChannels |->
                [i \in 1..length |->
                   LET offset == ((i - 1) * numChannels + (ch - 1)) * 2
                   IN IF offset + 1 < byteLength THEN GetInt16(data, offset)
                      ELSE 0]]]

\* The byte sequences handed to pcmToAudioBuffer.
ByteSeqs == UNION {[1..n -> {0, 255}] : n \in 0..MaxBytes}

\* createPCMBlob(data) on a one-sample array.
createPCMBlob(sample) ==
  /\ pcm' = [sample |-> sample, int16 |-> EncodeSample(sample),
             bytes |-> Int16Bytes(EncodeSample(sample))]
  /\ lastAct' = "other"
  /\ UNCHANGED <<lifeVars, playVars, toolVars, capVars, docVars, audioBuffer,
                 liveTranscription>>

\* pcmToAudioBuffer(data, ctx, 24000, numChannels); of is the sample data was
\* encoded from, if it was.
pcmToAudioBuffer(data, numChannels, of) ==
  LET out == PcmToAudioBuffer(data, numChannels)
  IN /\ audioBuffer' = [data |-> data, numChannels |-> numChannels,
                        threw |-> out.threw, length |-> out.length,
                        channelData |-> out.channelData, of |-> of]
     /\ lastAct' = "other"
     /\ UNCHANGED <<lifeVars, playVars, toolVars, capVars, docVars, pcm, liveTranscription>>

\* The codec applied to samples and to byte sequences.
NextCodec ==
  \/ \E sample \in Samples : createPCMBlob(sample)
  \/ \E data \in ByteSeqs, numChannels \in 1..MaxChannels :
       pcmToAudioBuffer(data, numChannels, NoPCM.sample)
  \/ pcm # NoPCM /\ pcmToAudioBuffer(pcm.bytes, 1, pcm.sample)

SpecCodec == Init /\ [][NextCodec]_vars

\* ------------------------------------------------ loading, editing, generating

\* The component is constructed over whatever localStorage holds; the mount effect
\* has not run yet.
InitDoc ==
  /\ Constructed
  /\ presentation = DefaultPresentation
  /\ activeSlideIndex = 0
  /\ persisted \in Stored
  /\ loaded = NotLoaded
  /\ generating = 0
  /\ generated = 0
  /\ imageRequests = {}

\* The component is on screen: the mount effect has run and no render has thrown.
OnScreen == loaded # NotLoaded /\ Renders(presentation, activeSlideIndex)

\* The mount effect: const saved = localStorage.getItem(KEY); if (saved) try {
\* const parsed = JSON.parse(saved); if (parsed.slides) setPresentation(parsed) }
\* catch (e) {}
load ==
  /\ loaded = NotLoaded
  /\ loaded' = persisted
  /\ presentation' = IF Accepted(persisted) THEN persisted ELSE presentation
  /\ lastAct' = "load"
  /\ UNCHANGED <<lifeVars, playVars, toolVars, capVars, codecVars, activeSlideIndex,
                 persisted, generating, generated, imageRequests, liveTranscription>>

\* A click on a thumbnail, or on the previous / next button.
setActiveSlideIndex(idx) ==
  /\ OnScreen
  /\ idx \in 0..(Len(presentation.slides) - 1)
  /\ idx # activeSlideIndex
  /\ activeSlideIndex' = idx
  /\ lastAct' = "setActiveSlideIndex"
  /\ UNCHANGED <<lifeVars, playVars, toolVars, capVars, codecVars, presentation,
                 persisted, loaded, generating, generated, imageRequests,
                 liveTranscription>>

\* handleUpdateCurrentSlide(updates): the slide on show is merged with the updates
\* and the document is saved.
handleUpdateCurrentSlide ==
  /\ OnScreen
  /\ presentation' = UpdatedSlide(presentation, activeSlideIndex)
  /\ persisted' = presentation'
  /\ lastAct' = "handleUpdateCurrentSlide"
  /\ UNCHANGED <<lifeVars, playVars, toolVars, capVars, codecVars, activeSlideIndex,
                 loaded, generating, generated, imageRequests, liveTranscription>>

\* handleGenerate(topic) up to its await, called from the topic field with the
\* isGenerating of the render on screen.
handleGenerate ==
  /\ OnScreen
  /\ ~isGenerating
  /\ generateCalls < MaxGenerations
  /\ isGenerating' = TRUE
  /\ generating' = generating + 1
  /\ generateCalls' = generateCalls + 1
  /\ lastAct' = "handleGenerate"
  /\ UNCHANGED <<lifeVars, playVars, capVars, codecVars, toolCalls, toolResponses,
                 updateCalls, transcriptEvents, presentation, activeSlideIndex,
                 persisted, loaded, generated, imageRequests, liveTranscription>>

\* generatePresentationStructure has resolved with a presentation of n slides, of
\* which those in prompts carry an imagePrompt: setPresentation(pres),
\* setActiveSlideIndex(0), setIsGenerating(false), and one generateImage call for
\* every slide with a prompt.
structureResolved(n, prompts) ==
  LET g == generated + 1
  IN /\ OnScreen
     /\ generating > 0
     /\ generating' = generating - 1
     /\ generated' = g
     /\ presentation' = [kind |-> "document", id |-> g,
                         slides |-> [k \in 1..n |-> PlainSlide]]
     /\ activeSlideIndex' = 0
     /\ isGenerating' = FALSE
     /\ imageRequests' = imageRequests \cup {[pres |-> g, slide |-> k] : k \in prompts}
     /\ lastAct' = "setPresentation"
     /\ UNCHANGED <<lifeVars, playVars, capVars, codecVars, toolCalls, toolResponses,
                    generateCalls, updateCalls, transcriptEvents, persisted, loaded,
                    liveTranscription>>

\* generatePresentationStructure has rejected: catch (e) { setIsGenerating(false) }
structureRejected ==
  /\ OnScreen
  /\ generating > 0
  /\ generating' = generating - 1
  /\ isGenerating' = FALSE
  /\ lastAct' = "structureRejected"
  /\ UNCHANGED <<lifeVars, playVars, capVars, codecVars, toolCalls, toolResponses,
                 generateCalls, updateCalls, transcriptEvents, presentation,
                 activeSlideIndex, persisted, loaded, generated, imageRequests,
                 liveTranscription>>

\* generateImage has resolved for req: the url is put on slide req.slide of the
\* document then in memory, if it has one, and that document is saved.
imageResolved(req) ==
  /\ OnScreen
  /\ req \in imageRequests
  /\ imageRequests' = imageRequests \ {req}
  /\ presentation' = Attached(presentation, req)
  /\ persisted' = presentation'
  /\ lastAct' = "imageAttached"
  /\ UNCHANGED <<lifeVars, playVars, toolVars, capVars, codecVars, activeSlideIndex,
                 loaded, generating, generated, liveTranscription>>

\* generateImage has rejected for req: .catch(console.error)
imageRejected(req) ==
  /\ req \in imageRequests
  /\ imageRequests' = imageRequests \ {req}
  /\ lastAct' = "imageRejected"
  /\ UNCHANGED <<lifeVars, playVars, toolVars, capVars, codecVars, presentation,
                 activeSlideIndex, persisted, loaded, generating, generated,
                 liveTranscription>>

NextDoc ==
  \/ load
  \/ \E idx \in 0..(MaxSlides - 1) : setActiveSlideIndex(idx)
  \/ handleUpdateCurrentSlide
  \/ handleGenerate
  \/ \E n \in 1..MaxSlides : \E prompts \in SUBSET (1..n) : structureResolved(n, prompts)
  \/ structureRejected
  \/ \E req \in imageRequests : imageResolved(req)
  \/ \E req \in imageRequests : imageRejected(req)

SpecDoc == InitDoc /\ [][NextDoc]_vars

Next ==
  \/ MicButton
  \/ \E i \in Starts, created \in 0..2 :
       /\ getUserMediaResolved(i, created)
       /\ lastAct' = IF created = 2 THEN "other" ELSE "catch"
  \/ \E i \in Starts : resumeInputResolved(i) /\ lastAct' = "other"
  \/ \E i \in Starts : resumeOutputResolved(i) /\ lastAct' = "other"
  \/ \E i \in Starts : awaitRejected(i) /\ lastAct' = "catch"
  \/ \E i \in Starts : updateVisFrame(i) /\ lastAct' = "other"
  \/ \E i \in Starts : onopen(i) /\ lastAct' = "other"
  \/ \E i \in Starts : connectRejected(i) /\ lastAct' = "other"
  \/ \E i \in Starts : onerror(i) /\ lastAct' = "onerror"
  \/ \E i \in Starts : onclose(i) /\ lastAct' = "onclose"

Spec == Init /\ [][Next]_vars

\* ---------------------------------------------------------------- claims

\* How often id occurs in the sequence seq.
Occurrences(seq, id) == Cardinality({k \in DOMAIN seq : seq[k] = id})

\* A step that starts a fragment.
Starting == lastStarted'.n > lastStarted.n

\* C1: when a fragment is started and neither an interruption nor a teardown has
\* happened since the fragment before it was started, its start time is at least
\* the start time of that fragment plus its duration, whatever the output clock
\* shows.
C1_NonOverlap ==
  [][(Starting /\ lastStarted.n > 0 /\ lastStarted'.after = "none")
       => lastStarted'.start >= lastStarted.end]_vars

\* Two fragments have been started with no reset between them, the second one
\* after the output clock had advanced.
C1_Witness ==
  /\ lastStarted.n >= 2
  /\ lastStarted.after = "none"
  /\ currentTime[lastStarted.ctx] > 0

\* C2: once the interrupted branch of a handler has run, no started fragment is
\* left playing, the in-flight set is empty and the playback clock is zero.
C2_InterruptStopsAll ==
  lastAct = "interrupted"
    => sources = {} /\ audioSourcesRef = {} /\ nextStartTimeRef = 0

\* An interruption has been processed while the newest fragment had not played
\* to its end.
C2_Witness ==
  /\ lastAct = "interrupted"
  /\ lastStarted.n >= 1
  /\ currentTime[lastStarted.ctx] < lastStarted.end

\* C3: no fragment of a message is started after the interruption of a message
\* received later has been processed.
C3_NoStaleFragment == ~lastStarted.stale

\* C4: the first fragment started after an interruption starts no earlier than
\* the output clock's current time, at a time that the current time alone
\* determines: the lead after it, or time zero on a clock that has not advanced.
C4_FreshAfterInterrupt ==
  [][(Starting /\ lastStarted'.after = "interrupt")
       => LET now == currentTime[lastStarted'.ctx]
          IN /\ lastStarted'.start >= now
             /\ lastStarted'.start = IF now > 0 THEN now + MinLead ELSE 0]_vars

\* A fragment has been started after an interruption that followed an earlier
\* fragment, on a clock that had advanced.
C4_Witness ==
  /\ lastStarted.n >= 2
  /\ lastStarted.after = "interrupt"
  /\ currentTime[lastStarted.ctx] > 0

\* C5: every function call received has exactly one tool response carrying its id.
C5_ExactlyOneResponse ==
  \A id \in toolCalls : Occurrences(toolResponses, id) = 1

\* What invocation i holds: a live microphone stream, an open audio context, a
\* channel that is open or being opened.
Holds(i) ==
  \/ stream[i] = "live"
  \/ inputCtx[i] = "open"
  \/ outputCtx[i] = "open"
  \/ session[i] \in {"pending", "open"}

\* C6: after stopLive has run, from the button or from onerror or onclose, the
\* status is idle, no microphone stream is live, no audio context is open and no
\* channel is open or left to open without a close waiting for it.
C6_TeardownReleasesAll ==
  lastAct \in {"stopLive", "onerror", "onclose"}
    => /\ connectionStatus = "idle"
       /\ \A i \in Starts :
            /\ stream[i] # "live"
            /\ inputCtx[i] # "open"
            /\ outputCtx[i] # "open"
            /\ session[i] # "open"
            /\ session[i] = "pending" => closeRequested[i]

C8_CancelledStartReleased ==
  \A i \in Starts :
    (cancelled[i] /\ ~Pending(i, session) /\ pc[i] # "failed")
      => ~Holds(i) /\ session[i] # "closing"

\* C9: whenever a stream, an audio context or a channel is held the status is
\* connecting or active, and whenever the status is active some invocation holds
\* its stream, both its contexts and its channel (while connecting they are being
\* acquired).
C9_HandlesIffLive ==
  /\ (\E i \in Starts : Holds(i)) => connectionStatus \in {"connecting", "active"}
  /\ connectionStatus = "active"
       => \E i \in Starts : /\ stream[i] = "live"
                            /\ inputCtx[i] = "open"
                            /\ outputCtx[i] = "open"
                            /\ session[i] = "open"

\* C10: once the catch block of a startLive has run, the status is idle and that
\* invocation holds no stream, no audio context, no visualizer loop and no channel.
C10_FailedStartReleased ==
  /\ lastAct = "catch" => connectionStatus = "idle"
  /\ \A i \in Starts :
       pc[i] = "failed" => ~Holds(i) /\ updateVis[i] # "running"

\* The frames k+1, k+2, ..., n in order.
FramesAfter(k, n) == [j \in 1..(n - k) |-> k + j]

\* C11: the chunks passed to sendRealtimeInput by an invocation are, in order and
\* each once, the frames it captured after its onopen ran; before onopen runs
\* nothing is passed.
C11_SentAreFramesAfterOpen ==
  \A i \in Starts :
    sent[i] = IF openedAt[i] < 0 THEN <<>> ELSE FramesAfter(openedAt[i], frames[i])

\* An invocation captured a frame before its channel opened and two after.
C11_Witness ==
  \E i \in Starts : openedAt[i] >= 1 /\ frames[i] >= openedAt[i] + 2

\* The handler of message m leaves the await it is suspended in.
Resumes(m) == handlers[m].pc = "await" /\ handlers'[m] # handlers[m]

\* C12: when a handler resumes with a decoded fragment while its output context
\* is not open, the fragment is dropped: none is started, nothing is added to the
\* in-flight set and the playback clock keeps its value.
C12_DroppedWithoutDevice ==
  [][(\E m \in DOMAIN handlers : Resumes(m) /\ outputCtx[handlers[m].ctx] # "open")
       => /\ ~Starting
          /\ audioSourcesRef' \subseteq audioSourcesRef
          /\ nextStartTimeRef' = nextStartTimeRef]_vars

\* C13: after stopLive has run the in-flight set is empty and the playback clock
\* is zero, as after an interruption.
C13_TeardownResetsPlayback ==
  lastAct = "stopLive" => audioSourcesRef = {} /\ nextStartTimeRef = 0

\* C14: every transcript event the newest message carried has been forwarded to
\* setLiveTranscription.
C14_TranscriptsForwarded ==
  transcriptEvents.forwarded = transcriptEvents.received

\* Message m has applied an effect: a transcript forwarded, a tool call
\* dispatched or an interruption processed.
Applied(m) ==
  \/ m = Len(handlers) /\ transcriptEvents.forwarded # {}
  \/ \E k \in DOMAIN toolResponses : toolResponses[k][1] = m
  \/ lastIntMsg = m

\* C15: no message has applied an effect while an earlier message still has a
\* fragment to schedule, its handler suspended in the await on decoding.
C15_ArrivalOrder ==
  \A k, m \in DOMAIN handlers :
    (k < m /\ Applied(m)) => handlers[k].pc # "await"

\* C16: no handler is aborted by a fragment whose data does not decode; it goes on
\* to the parts that follow and to the interrupted flag of its message.
C16_MalformedIsolated ==
  \A m \in DOMAIN handlers : handlers[m].pc # "threw"

\* C17: every fragment is started at the later of the output clock's time plus
\* the lead and the playback clock, and ends, where the playback clock is then
\* set, its duration later.
C17_StartIsMaxOfLeadAndClock ==
  [][\A m \in DOMAIN handlers :
       (Resumes(m) /\ Starting)
         => /\ lastStarted'.start =
                 Max(currentTime[handlers[m].ctx] + MinLead, nextStartTimeRef)
            /\ lastStarted'.end = lastStarted'.start + handlers[m].dur]_vars

\* The sample s clamped to [-1, 1], as a multiple of 1 / SampleDen.
Clamped(s) ==
  CASE s.kind = "Infinity" -> SampleDen
    [] s.kind = "-Infinity" -> -SampleDen
    [] s.num > SampleDen -> SampleDen
    [] s.num < -SampleDen -> -SampleDen
    [] OTHER -> s.num

\* |a|
Abs(a) == IF a < 0 THEN -a ELSE a

\* The distance between the decoded sample and x / SampleDen, as a multiple of
\* 1 / (SampleDen * 32768): SampleDen of them make one quantization step.
RoundTripError(x) ==
  Abs(x * 32768 - audioBuffer.channelData[1][1] * SampleDen)

\* A buffer decoded from the bytes createPCMBlob wrote for a finite sample.
RoundTripped == audioBuffer.of.kind = "finite" /\ ~audioBuffer.threw

\* C18 as stated: the decoded value of an encoded finite sample is within one
\* quantization step, 1/32768, of the sample.
C18_RoundTripOneStep ==
  RoundTripped => RoundTripError(audioBuffer.of.num) <= SampleDen

\* C18 amended: the decoded value of an encoded finite sample is less than two
\* quantization steps from the sample clamped to [-1, 1], and within one step of
\* it when the sample is negative.
C18_RoundTripTwoStepsOfClamped ==
  RoundTripped
    => LET c == Clamped(audioBuffer.of)
       IN /\ audioBuffer.length = 1
          /\ RoundTripError(c) < 2 * SampleDen
          /\ c < 0 => RoundTripError(c) <= SampleDen

\* A sample inside [-1, 1] has come back more than one step away.
C18_Witness ==
  /\ RoundTripped
  /\ Abs(audioBuffer.of.num) <= SampleDen
  /\ RoundTripError(audioBuffer.of.num) > SampleDen

\* C19: the 16-bit integer createPCMBlob writes for a sample lies in
\* [-32768, 32767] and, unless the sample is NaN, is c * 32768 rounded toward zero
\* when c < 0 and c * 32767 rounded toward zero otherwise, c the sample clamped
\* to [-1, 1].
C19_ClampedScaledTruncated ==
  pcm # NoPCM
    => /\ pcm.int16 \in -32768..32767
       /\ pcm.sample.kind # "NaN"
            => LET c == Clamped(pcm.sample)
               IN pcm.int16 = IF c < 0 THEN -((-c * 32768) \div SampleDen)
                              ELSE (c * 32767) \div SampleDen

\* A sample above 1 and one below -1 are written as 32767 and -32768.
C19_Witness ==
  /\ pcm.sample.kind = "finite"
  /\ \/ pcm.sample.num > SampleDen /\ pcm.int16 = 32767
     \/ pcm.sample.num < -SampleDen /\ pcm.int16 = -32768

\* C20: pcmToAudioBuffer does not throw and returns a buffer of
\* floor(n / (2 * c)) frames for n bytes and c channels, none for empty input.
C20_FloorFrames ==
  audioBuffer.numChannels > 0
    => /\ ~audioBuffer.threw
       /\ audioBuffer.length = Len(audioBuffer.data) \div (2 * audioBuffer.numChannels)

\* The persisted values the specification calls invalid: unparseable text, a
\* non-object, an object whose slides is missing, not an array, or empty.
Invalid(saved) ==
  \/ saved.kind \in {"unparseable", "null", "scalar", "slidesFalsy", "slidesNotArray"}
  \/ saved.kind = "document" /\ saved.slides = <<>>

\* C21: once the persisted state has been loaded, the slide on show exists, and if
\* the persisted state was of an invalid structure the document is the default
\* single-slide document.
C21_InvalidLoadKeepsDefault ==
  lastAct = "load"
    => /\ Renders(presentation, activeSlideIndex)
       /\ Invalid(loaded) => presentation = DefaultPresentation

\* C22: once a slide update, the replacement of the document by a generated
\* presentation or the attachment of an image has completed, the persisted state
\* is the document in memory.
C22_PersistedAfterMutation ==
  lastAct \in {"handleUpdateCurrentSlide", "setPresentation", "imageAttached"}
    => persisted = presentation

\* C26: every image on a slide of the document in memory was generated for that
\* slide of that document, and none for a document that has been replaced.
C26_ImageOnItsOwnSlide ==
  \A k \in 1..Len(presentation.slides) :
    presentation.slides[k].imageUrl # NoImage
      => presentation.slides[k].imageUrl = [pres |-> presentation.id, slide |-> k]

\* C25: at most one generation is in flight: while a handleGenerate invocation
\* awaits its structure, no further invocation gets past the guard.
C25_OneGenerationInFlight == generating <= 1

\* C23: an onerror or onclose callback of the channel of an earlier invocation
\* leaves every later invocation as it was: its microphone stream, its audio
\* contexts, its processor, its channel and the connection status.
C23_LateCallbackLeavesLaterSession ==
  [][\A i \in Starts : \A j \in Starts :
       (/\ i < j
        /\ pc[j] # "unused"
        /\ lastAct' \in {"onerror", "onclose"}
        /\ session'[i] # session[i]
        /\ session'[i] \in {"errored", "closed"})
         => (/\ stream'[j] = stream[j]
             /\ inputCtx'[j] = inputCtx[j]
             /\ outputCtx'[j] = outputCtx[j]
             /\ scriptProcessor'[j] = scriptProcessor[j]
             /\ session'[j] = session[j]
             /\ connectionStatus' = connectionStatus)]_vars

\* C24: at any time at most one channel is open and at most one microphone stream
\* is live, and what an invocation that is no longer suspended has acquired is what
\* the refs stopLive releases point to.
C24_AtMostOneLiveSession ==
  /\ Cardinality({i \in Starts : session[i] = "open"}) <= 1
  /\ Cardinality({i \in Starts : stream[i] = "live"}) <= 1
  /\ \A i \in Starts :
       pc[i] = "returned"
         => /\ stream[i] = "live" => streamRef = i
            /\ inputCtx[i] = "open" => inputAudioCtxRef = i
            /\ outputCtx[i] = "open" => outputAudioCtxRef = i
            /\ session[i] \in {"pending", "open"} => sessionPromiseRef = i
====
